---- MODULE Spec2Model ----
(***************************************************************************)
(* FigSync file monitor (src/FigSync/monitor.py): the polling Observer,    *)
(* its snapshot and diff functions, handler dispatch and the debounce of   *)
(* ChangeHandler.process_update.                                           *)
(*                                                                         *)
(* Python values are modelled with their types: a str is                   *)
(* [type |-> "str", value |-> ...], a member of the enum                    *)
(* ChangeHandler.Action is [type |-> "Action", value |-> ...].  File names  *)
(* and paths are sequences of one-character strings, so that prefixing and *)
(* regular-expression search work on the characters.  Modification times   *)
(* are integers on an ordered scale (the datetime built from a timestamp   *)
(* is compared only with < and ==).  time.time() is an integer number of   *)
(* tenths of a second.                                                     *)
(***************************************************************************)
EXTENDS Integers, Sequences, FiniteSets, TLC

VARIABLES
    arg, ret,                 \* a pure function being applied: its input, its result
    last_file, last_update,   \* ChangeHandler fields (one handler called directly)
    now, callerPc, callPath, log,  \* clock, caller of process_update, its argument, call history
    rootExists, fs,           \* the watched directory
    last_updates, running, thread, \* Observer fields
    pc, listing, changes, exc,     \* per polling thread: position, locals, uncaught exception
    mainPc, starts, client,   \* the controlling thread
    stopSeen,                 \* where the joined thread was when running was cleared
    launched                  \* commands launched by polling threads, counted

pureVars == <<arg, ret>>
handlerVars == <<last_file, last_update, now, callerPc, callPath, log>>
observerVars == <<rootExists, fs, last_updates, running, thread, pc, listing,
                  changes, exc, mainPc, starts, client, stopSeen, launched>>
vars == <<arg, ret, last_file, last_update, now, callerPc, callPath, log,
          rootExists, fs, last_updates, running, thread, pc, listing,
          changes, exc, mainPc, starts, client, stopSeen, launched>>

(***************************************************************************)
(* Bounds of the model.                                                    *)
(***************************************************************************)
MaxTime == 2      \* modification times range over 1..MaxTime
MaxStarts == 2    \* start() is called at most this often by an API client
MaxClock == 12    \* time.time() ranges over 0..MaxClock tenths of a second
MaxCalls == 3     \* direct calls of process_update

None == [type |-> "NoneType"]
Str(s) == [type |-> "str", value |-> s]
Action(s) == [type |-> "Action", value |-> s]
ActionNames == {"CREATE", "UPDATE", "DELETE"}

\* File names of the examples.
A_TXT == <<"a", ".", "t", "x", "t">>
DRAFT_PDF == <<"d", "r", "a", "f", "t", ".", "p", "d", "f">>
FINAL_PDF == <<"f", "i", "n", "a", "l", ".", "p", "d", "f">>
Paths == {A_TXT, DRAFT_PDF, FINAL_PDF}
WatchedNames == {A_TXT, DRAFT_PDF}
Times == 1..MaxTime

\* A snapshot: a dict from path to modification time.
Snapshots(names) == UNION {[d -> Times] : d \in SUBSET names}
EmptyDict == [p \in {} |-> 0]

(***************************************************************************)
(* Observer.get_changes.  The first loop runs over old_states: a path not  *)
(* in new_states is entered as "DELETE" and the lookup new_states[path] of *)
(* the next statement then raises KeyError, which discards the dict built  *)
(* so far.  The second loop enters "CREATE" for the paths only in          *)
(* new_states.                                                             *)
(***************************************************************************)
RECURSIVE OldLoop(_, _, _, _)
OldLoop(todo, old_states, new_states, acc) ==
    IF todo = {} THEN [exc |-> "none", changes |-> acc]
    ELSE LET file_path == CHOOSE p \in todo : TRUE
             acc1 == IF file_path \notin DOMAIN new_states
                     THEN [p \in DOMAIN acc \cup {file_path} |->
                              IF p = file_path THEN Str("DELETE") ELSE acc[p]]
                     ELSE acc
         IN  IF file_path \notin DOMAIN new_states
             THEN [exc |-> "KeyError", changes |-> EmptyDict]
             ELSE LET acc2 == IF old_states[file_path] < new_states[file_path]
                              THEN [p \in DOMAIN acc1 \cup {file_path} |->
                                       IF p = file_path THEN Str("UPDATE") ELSE acc1[p]]
                              ELSE acc1
                  IN  OldLoop(todo \ {file_path}, old_states, new_states, acc2)

NewLoop(old_states, new_states, acc) ==
    [p \in DOMAIN acc \cup (DOMAIN new_states \ DOMAIN old_states) |->
        IF p \notin DOMAIN old_states THEN Str("CREATE") ELSE acc[p]]

get_changes(old_states, new_states) ==
    LET first == OldLoop(DOMAIN old_states, old_states, new_states, EmptyDict)
    IN  IF first.exc # "none" THEN first
        ELSE [exc |-> "none", changes |-> NewLoop(old_states, new_states, first.changes)]

NotRun == [exc |-> "notrun"]

(***************************************************************************)
(* Specification SpecDiff: get_changes applied to every pair of snapshots  *)
(* over Paths.                                                             *)
(***************************************************************************)
IdleHandler ==
    /\ last_file = None /\ last_update = 0 /\ now = 0
    /\ callerPc = "idle" /\ callPath = None /\ log = <<>>

IdleObserver ==
    /\ rootExists = TRUE /\ fs = EmptyDict /\ last_updates = EmptyDict
    /\ running = FALSE /\ thread = None
    /\ pc = [t \in 1..MaxStarts |-> "unstarted"]
    /\ listing = [t \in 1..MaxStarts |-> {}]
    /\ changes = [t \in 1..MaxStarts |-> EmptyDict]
    /\ exc = [t \in 1..MaxStarts |-> "none"]
    /\ mainPc = "constructed" /\ starts = 0 /\ client = "main"
    /\ stopSeen = "none"
    /\ launched = EmptyDict

InitDiff ==
    /\ arg \in [old : Snapshots(Paths), new : Snapshots(Paths)]
    /\ ret = NotRun
    /\ IdleHandler /\ IdleObserver

ApplyDiff ==
    /\ ret = NotRun
    /\ "old" \in DOMAIN arg
    /\ ret' = get_changes(arg.old, arg.new)
    /\ UNCHANGED <<arg, handlerVars, observerVars>>

NextDiff == ApplyDiff

SpecDiff == InitDiff /\ [][NextDiff]_vars

(***************************************************************************)
(* C1: for every pair of snapshots get_changes returns normally and its    *)
(* result holds DELETE for each path only in old, CREATE for each path     *)
(* only in new, UPDATE for each shared path whose time grew, and nothing   *)
(* else.                                                                   *)
(***************************************************************************)
ExpectedChanges(old, new) ==
    LET dom == (DOMAIN old \ DOMAIN new) \cup (DOMAIN new \ DOMAIN old)
                 \cup {p \in DOMAIN old \cap DOMAIN new : old[p] < new[p]}
    IN  [p \in dom |-> IF p \notin DOMAIN new THEN "DELETE"
                       ELSE IF p \notin DOMAIN old THEN "CREATE" ELSE "UPDATE"]

ChangeNames(ch) == [p \in DOMAIN ch |-> ch[p].value]

C1_DiffComplete ==
    ret # NotRun =>
        /\ ret.exc = "none"
        /\ ChangeNames(ret.changes) = ExpectedChanges(arg.old, arg.new)

(***************************************************************************)
(* re.search for the patterns of the configuration: a literal, optionally  *)
(* anchored at the end by "$".  The search is unanchored at the start: the *)
(* literal may begin at any position of the string.                        *)
(***************************************************************************)
Regex(literal, atEnd) == [literal |-> literal, atEnd |-> atEnd]
RE_PDF_END == Regex(<<".", "p", "d", "f">>, TRUE)     \* "\.pdf$"
RE_DRAFT == Regex(<<"d", "r", "a", "f", "t">>, FALSE) \* "draft"
RE_TXT_END == Regex(<<".", "t", "x", "t">>, TRUE)     \* "\.txt$"

re_search(pattern, string) ==
    LET n == Len(pattern.literal)
    IN  \E i \in 1..(Len(string) - n + 1) :
            /\ SubSeq(string, i, i + n - 1) = pattern.literal
            /\ pattern.atEnd => i + n - 1 = Len(string)

(***************************************************************************)
(* A Python dict as the sequence of its items in insertion order.          *)
(* d[k] = v replaces the value of an existing key in place and appends a   *)
(* new key.                                                                *)
(***************************************************************************)
DictKeys(d) == {d[i].key : i \in 1..Len(d)}
DictSet(d, k, v) ==
    IF k \in DictKeys(d)
    THEN [i \in 1..Len(d) |-> IF d[i].key = k THEN [key |-> k, value |-> v] ELSE d[i]]
    ELSE Append(d, [key |-> k, value |-> v])

(***************************************************************************)
(* read_handlers: one ChangeHandler per entry of configuration["handlers"],*)
(* its actions the list of Action members named by the entry, stored in a  *)
(* dict under the entry's pattern.                                         *)
(***************************************************************************)
Rule(pattern, actions, script) == [pattern |-> pattern, actions |-> actions, script |-> script]
Configuration ==
    << Rule(RE_PDF_END, <<"UPDATE">>, "scriptA"),
       Rule(RE_DRAFT, <<"CREATE", "DELETE">>, "scriptB"),
       Rule(RE_TXT_END, <<"CREATE", "UPDATE", "DELETE">>, "scriptC") >>

ChangeHandler(actions, script) == [actions |-> actions, script |-> script]

RECURSIVE ReadLoop(_, _, _)
ReadLoop(configuration, i, handlers) ==
    IF i > Len(configuration) THEN handlers
    ELSE LET handler_data == configuration[i]
             actions == [k \in 1..Len(handler_data.actions) |-> Action(handler_data.actions[k])]
             handler == ChangeHandler(actions, handler_data.script)
         IN  ReadLoop(configuration, i + 1, DictSet(handlers, handler_data.pattern, handler))

read_handlers(configuration) == ReadLoop(configuration, 1, <<>>)

Handlers == read_handlers(Configuration)

(***************************************************************************)
(* Python's ==, and "x in list".  Values of different types are unequal:   *)
(* Action is a plain enum.Enum, so the str "CREATE" equals no member.      *)
(***************************************************************************)
PyEq(a, b) == a.type = b.type /\ a.value = b.value
PyIn(x, list) == \E i \in 1..Len(list) : PyEq(list[i], x)

(***************************************************************************)
(* Observer.process_changes.  The call handler.process_update(file_path)   *)
(* passes one argument to a method that requires two (src_path, action),   *)
(* so the call raises TypeError before the method's body is entered.       *)
(***************************************************************************)
ProcessUpdateParameters == <<"src_path", "action">>
CallBinds(args) == Len(args) = Len(ProcessUpdateParameters)

process_changes(chg, handlers) ==
    LET hits == {h \in (DOMAIN chg) \X (1..Len(handlers)) :
                    /\ re_search(handlers[h[2]].key, h[1])
                    /\ PyIn(chg[h[1]], handlers[h[2]].value.actions)}
    IN  IF hits = {} THEN [exc |-> "none", launched |-> {}]
        ELSE IF \E h \in hits : ~CallBinds(<<h[1]>>)
        THEN [exc |-> "TypeError", launched |-> {}]
        ELSE [exc |-> "none",
              launched |-> {<<handlers[h[2]].value.script, h[1]>> : h \in hits}]

(***************************************************************************)
(* Specification SpecDispatch: process_changes applied to every change     *)
(* dict get_changes can build over Paths, with the handlers read from      *)
(* Configuration.                                                          *)
(***************************************************************************)
ChangeDicts(names) == UNION {[d -> {Str(a) : a \in ActionNames}] : d \in SUBSET names}

InitDispatch ==
    /\ arg \in [changes : ChangeDicts(Paths)]
    /\ ret = NotRun
    /\ IdleHandler /\ IdleObserver

ApplyDispatch ==
    /\ ret = NotRun
    /\ "changes" \in DOMAIN arg
    /\ ret' = process_changes(arg.changes, Handlers)
    /\ UNCHANGED <<arg, handlerVars, observerVars>>

NextDispatch == ApplyDispatch

SpecDispatch == InitDispatch /\ [][NextDispatch]_vars

(***************************************************************************)
(* C2: a rule's command is invoked for a change record exactly when the    *)
(* rule's pattern is found in the path and the record's action is one of   *)
(* the rule's accepted actions.                                            *)
(***************************************************************************)
RuleAccepts(rule, path, name) ==
    /\ re_search(rule.pattern, path)
    /\ \E k \in 1..Len(rule.actions) : rule.actions[k] = name

ExpectedLaunches(chg) ==
    {<<Configuration[h[2]].script, h[1]>> : h \in
        {h \in (DOMAIN chg) \X (1..Len(Configuration)) :
            RuleAccepts(Configuration[h[2]], h[1], chg[h[1]].value)}}

C2_DispatchRouting ==
    ret # NotRun =>
        /\ ret.exc = "none"
        /\ ret.launched = ExpectedLaunches(arg.changes)

(***************************************************************************)
(* ChangeHandler.process_update, called directly with (src_path, action).  *)
(* The debounce test reads last_file and last_update; a call that passes   *)
(* it sets both and then runs the script with subprocess.run, which blocks *)
(* until the script exits, or raises OSError at once when the script       *)
(* cannot be launched.  Nothing in process_update catches that exception.  *)
(***************************************************************************)
DebounceWindow == 10    \* "< 1" second, in tenths of a second

DebouncedInclusive(src_path, t) ==
    Str(src_path) = last_file /\ t - last_update <= DebounceWindow

DebouncedIgnoringPath(src_path, t) ==
    t - last_update < DebounceWindow

Debounced(src_path, t) ==
    Str(src_path) = last_file /\ t - last_update < DebounceWindow

LogEntry(src_path, t, result) == [path |-> src_path, at |-> t, result |-> result]

CallSuppressedTouching(src_path) ==
    /\ callerPc = "idle" /\ Len(log) < MaxCalls
    /\ Debounced(src_path, now)
    /\ last_update' = now
    /\ log' = Append(log, LogEntry(src_path, now, "suppressed"))
    /\ UNCHANGED <<last_file, now, callerPc, callPath>>
    /\ UNCHANGED <<pureVars, observerVars>>

CallSuppressed(src_path) ==
    /\ callerPc = "idle" /\ Len(log) < MaxCalls
    /\ Debounced(src_path, now)
    /\ log' = Append(log, LogEntry(src_path, now, "suppressed"))
    /\ UNCHANGED <<last_file, last_update, now, callerPc, callPath>>
    /\ UNCHANGED <<pureVars, observerVars>>

CallLaunches(src_path) ==
    /\ callerPc = "idle" /\ Len(log) < MaxCalls
    /\ ~Debounced(src_path, now)
    /\ last_file' = Str(src_path)
    /\ last_update' = now
    /\ callerPc' = "running"
    /\ callPath' = Str(src_path)
    /\ log' = Append(log, LogEntry(src_path, now, "launched"))
    /\ UNCHANGED now
    /\ UNCHANGED <<pureVars, observerVars>>

CallLaunchFails(src_path) ==
    /\ callerPc = "idle" /\ Len(log) < MaxCalls
    /\ ~Debounced(src_path, now)
    /\ last_file' = Str(src_path)
    /\ last_update' = now
    /\ log' = Append(log, LogEntry(src_path, now, "raised"))
    /\ UNCHANGED <<now, callerPc, callPath>>
    /\ UNCHANGED <<pureVars, observerVars>>

CommandReturns ==
    /\ callerPc = "running"
    /\ callerPc' = "idle"
    /\ callPath' = None
    /\ UNCHANGED <<last_file, last_update, now, log>>
    /\ UNCHANGED <<pureVars, observerVars>>

Advance ==
    /\ now < MaxClock
    /\ now' = now + 1
    /\ UNCHANGED <<last_file, last_update, callerPc, callPath, log>>
    /\ UNCHANGED <<pureVars, observerVars>>

(***************************************************************************)
(* Specification SpecHandler: one ChangeHandler, constructed at time 0     *)
(* (last_file = None, last_update = time.time()), then called directly     *)
(* for the paths of WatchedNames while the clock advances.                 *)
(***************************************************************************)
InitHandler ==
    /\ arg = None /\ ret = NotRun
    /\ IdleHandler /\ IdleObserver

NextHandler ==
    \/ \E p \in WatchedNames : CallSuppressed(p)
    \/ \E p \in WatchedNames : CallLaunches(p)
    \/ \E p \in WatchedNames : CallLaunchFails(p)
    \/ CommandReturns
    \/ Advance

SpecHandler == InitHandler /\ [][NextHandler]_vars

Attempted(e) == e.result # "suppressed"

\* The last call before call i that invoked the command, 0 when there is none.
PrevAttempt(i) ==
    LET before == {j \in 1..(i - 1) : Attempted(log[j])}
    IN  IF before = {} THEN 0 ELSE CHOOSE j \in before : \A k \in before : k <= j

(***************************************************************************)
(* C4: debounce.  A call on a handler that has never been triggered        *)
(* invokes the command; a call for the path of the last invocation less    *)
(* than one second after it invokes nothing; a call for that path one      *)
(* second or more after it invokes the command again.                      *)
(***************************************************************************)
C4_Debounce ==
    \A i \in 1..Len(log) :
        LET j == PrevAttempt(i)
        IN  /\ j = 0 => Attempted(log[i])
            /\ (j # 0 /\ log[j].path = log[i].path /\ log[i].at - log[j].at < DebounceWindow)
                  => ~Attempted(log[i])
            /\ (j # 0 /\ log[j].path = log[i].path /\ log[i].at - log[j].at >= DebounceWindow)
                  => Attempted(log[i])

\* P fires, P again after 900 ms is suppressed, P again after 1100 ms fires.
C4_Witness ==
    /\ Len(log) = 3
    /\ log[1] = LogEntry(A_TXT, 0, "launched")
    /\ log[2] = LogEntry(A_TXT, 9, "suppressed")
    /\ log[3] = LogEntry(A_TXT, 11, "launched")

(***************************************************************************)
(* C9: a failure to launch a handler's command is local: it does not       *)
(* leave process_update as an exception that ends the caller's work.       *)
(***************************************************************************)
C9_LaunchFailureLocal ==
    \A i \in 1..Len(log) : log[i].result # "raised"

(***************************************************************************)
(* C15: debounce state changes only on a trigger that fires.  After any    *)
(* sequence of calls, last_file and last_update are the path and the time  *)
(* of the last call that was not suppressed (None and the construction     *)
(* time when there is none), so a suppressed call left them alone; and     *)
(* while the command of a call runs, both are already set for that call.   *)
(***************************************************************************)
C15_DebounceFrame ==
    LET j == PrevAttempt(Len(log) + 1)
    IN  /\ j = 0 => last_file = None /\ last_update = 0
        /\ j # 0 => last_file = Str(log[j].path) /\ last_update = log[j].at
        /\ callerPc = "running" =>
              /\ log[Len(log)].result = "launched"
              /\ callPath = last_file
              /\ last_update = log[Len(log)].at

\* P fired, the clock moved, P again was suppressed: the state is still P's.
C15_Witness ==
    /\ Len(log) >= 2
    /\ log[Len(log)].result = "suppressed"
    /\ log[Len(log)].at > last_update
    /\ callerPc = "idle"

\* Call i follows, inside the window, an invocation for a different path.
OtherPathInWindow(i) ==
    LET j == PrevAttempt(i)
    IN  /\ j # 0
        /\ log[j].path # log[i].path
        /\ log[i].at - log[j].at < DebounceWindow

(***************************************************************************)
(* C16 as stated: when a call for path Q follows an invocation for a       *)
(* different path P on the same handler by less than one second, the       *)
(* command is not invoked for Q.                                           *)
(***************************************************************************)
C16_BlindToSecondPath ==
    \A i \in 1..Len(log) : OtherPathInWindow(i) => ~Attempted(log[i])

(***************************************************************************)
(* C16 amended: the debounce test compares the path as well as the time,   *)
(* so a call for Q less than one second after an invocation for a          *)
(* different path P always invokes the command for Q.                      *)
(***************************************************************************)
C16_SecondPathFires ==
    \A i \in 1..Len(log) : OtherPathInWindow(i) => Attempted(log[i])

\* P fires at 0 and returns; Q is called 300 ms later and fires.
C16_Witness ==
    /\ Len(log) = 2
    /\ log[1] = LogEntry(A_TXT, 0, "launched")
    /\ log[2] = LogEntry(DRAFT_PDF, 3, "launched")

(***************************************************************************)
(* The watched directory: a dict from entry name to a file                 *)
(* [isdir |-> FALSE, mtime] or a directory [isdir |-> TRUE, mtime,          *)
(* entries].                                                               *)
(***************************************************************************)
File(m) == [isdir |-> FALSE, mtime |-> m]
FlatDirs(names) == UNION {[d -> {File(m) : m \in Times}] : d \in SUBSET names}

DictPut(d, k, v) == [x \in DOMAIN d \cup {k} |-> IF x = k THEN v ELSE d[x]]

(***************************************************************************)
(* Observer.query_last_updates over the names that os.listdir returned.    *)
(* A listed name that is gone when os.path.getmtime reads it raises        *)
(* OSError.  With recursive set, a directory is walked first and then      *)
(* entered itself, like a file, under prefix + filename.                   *)
(***************************************************************************)
RECURSIVE query_last_updates(_, _, _, _, _)
query_last_updates(dir, names, recursive, prefix, acc) ==
    IF names = {} THEN [exc |-> "none", updates |-> acc]
    ELSE LET filename == CHOOSE n \in names : TRUE
         IN  IF filename \notin DOMAIN dir
             THEN [exc |-> "OSError", updates |-> acc]
             ELSE LET entry == dir[filename]
                      sub == IF recursive /\ entry.isdir
                             THEN query_last_updates(entry.entries, DOMAIN entry.entries,
                                      recursive, prefix \o filename \o <<"/">>, acc)
                             ELSE [exc |-> "none", updates |-> acc]
                  IN  IF sub.exc # "none" THEN sub
                      ELSE query_last_updates(dir, names \ {filename}, recursive, prefix,
                               DictPut(sub.updates, prefix \o filename, entry.mtime))

recursive == FALSE    \* Observer.recursive of the session

Thread(t) == [type |-> "Thread", id |-> t]
Threads == 1..MaxStarts
Exited(t) == pc[t] \in {"done", "crashed"}
Live(t) == pc[t] \notin {"unstarted", "done", "crashed"}

\* The __main__ script calls start() once; another client of the class may
\* call it again.
StartLimitAlways == MaxStarts
StartLimit == IF client = "main" THEN 1 ELSE MaxStarts

mainFrame == <<arg, ret, handlerVars>>

(***************************************************************************)
(* Observer.start: sets running, makes a new thread on __process__, stores *)
(* it in self.thread and starts it.  There is no test of the current       *)
(* state.                                                                  *)
(***************************************************************************)
Start ==
    /\ mainPc \in {"constructed", "started"}
    /\ starts < StartLimit
    /\ running' = TRUE
    /\ starts' = starts + 1
    /\ thread' = Thread(starts + 1)
    /\ pc' = [pc EXCEPT ![starts + 1] = "loop"]
    /\ mainPc' = "started"
    /\ UNCHANGED <<rootExists, fs, last_updates, listing, changes, exc, client,
                   stopSeen, launched>>
    /\ UNCHANGED mainFrame

\* __main__, on KeyboardInterrupt: observer.running = False ...
Interrupt ==
    /\ mainPc = "started"
    /\ running' = FALSE
    /\ mainPc' = "stopping"
    /\ stopSeen' = pc[thread.id]
    /\ UNCHANGED <<rootExists, fs, last_updates, thread, pc, listing, changes, exc,
                   starts, client, launched>>
    /\ UNCHANGED mainFrame

\* ... then observer.thread.join(), which returns once that thread has ended.
Join ==
    /\ mainPc = "stopping"
    /\ Exited(thread.id)
    /\ mainPc' = "joined"
    /\ UNCHANGED <<rootExists, fs, last_updates, running, thread, pc, listing, changes,
                   exc, starts, client, stopSeen, launched>>
    /\ UNCHANGED mainFrame

(***************************************************************************)
(* Observer.__process__, one polling thread t.                             *)
(***************************************************************************)
LoopConditionAlways == TRUE
LoopCondition == running

Crash(t, e) ==
    /\ pc' = [pc EXCEPT ![t] = "crashed"]
    /\ exc' = [exc EXCEPT ![t] = e]

\* while self.running:
LoopTest(t) ==
    /\ pc[t] = "loop"
    /\ pc' = [pc EXCEPT ![t] = IF LoopCondition THEN "sleep" ELSE "done"]
    /\ UNCHANGED <<rootExists, fs, last_updates, running, thread, listing, changes, exc,
                   mainPc, starts, client, stopSeen, launched>>
    /\ UNCHANGED mainFrame

\* time.sleep(1)
Sleep(t) ==
    /\ pc[t] = "sleep"
    /\ pc' = [pc EXCEPT ![t] = "listdir"]
    /\ UNCHANGED <<rootExists, fs, last_updates, running, thread, listing, changes, exc,
                   mainPc, starts, client, stopSeen, launched>>
    /\ UNCHANGED mainFrame

\* os.listdir(path) of query_last_updates: raises OSError when the root is gone.
ListDir(t) ==
    /\ pc[t] = "listdir"
    /\ IF rootExists
       THEN /\ listing' = [listing EXCEPT ![t] = DOMAIN fs]
            /\ pc' = [pc EXCEPT ![t] = "stat"]
            /\ UNCHANGED exc
       ELSE /\ Crash(t, "OSError")
            /\ UNCHANGED listing
    /\ UNCHANGED <<rootExists, fs, last_updates, running, thread, changes,
                   mainPc, starts, client, stopSeen, launched>>
    /\ UNCHANGED mainFrame

\* The rest of the tick up to the dispatch: the modification times of the
\* listed names are read, get_changes compares them with self.last_updates,
\* and only if the result is not empty self.last_updates is replaced.
Capture(t) ==
    /\ pc[t] = "stat"
    /\ LET new_updates == query_last_updates(fs, listing[t], recursive, <<>>, EmptyDict)
           diff == get_changes(last_updates, new_updates.updates)
       IN  IF new_updates.exc # "none"
           THEN Crash(t, new_updates.exc) /\ UNCHANGED <<last_updates, changes>>
           ELSE IF diff.exc # "none"
           THEN Crash(t, diff.exc) /\ UNCHANGED <<last_updates, changes>>
           ELSE IF diff.changes # EmptyDict
           THEN /\ last_updates' = new_updates.updates
                /\ changes' = [changes EXCEPT ![t] = diff.changes]
                /\ pc' = [pc EXCEPT ![t] = "dispatch"]
                /\ UNCHANGED exc
           ELSE /\ pc' = [pc EXCEPT ![t] = "loop"]
                /\ UNCHANGED <<last_updates, changes, exc>>
    /\ listing' = [listing EXCEPT ![t] = {}]
    /\ UNCHANGED <<rootExists, fs, running, thread, mainPc, starts, client, stopSeen,
                   launched>>
    /\ UNCHANGED mainFrame

\* Commands launched so far: a count per (script, path).
LaunchCount(l, x) == IF x \in DOMAIN l THEN l[x] ELSE 0
CountLaunches(l, new) ==
    [x \in DOMAIN l \cup new |-> LaunchCount(l, x) + (IF x \in new THEN 1 ELSE 0)]

\* self.process_changes(changes)
Dispatch(t) ==
    /\ pc[t] = "dispatch"
    /\ LET r == process_changes(changes[t], Handlers)
       IN  IF r.exc # "none"
           THEN Crash(t, r.exc) /\ UNCHANGED launched
           ELSE /\ launched' = CountLaunches(launched, r.launched)
                /\ pc' = [pc EXCEPT ![t] = "loop"]
                /\ UNCHANGED exc
    /\ changes' = [changes EXCEPT ![t] = EmptyDict]
    /\ UNCHANGED <<rootExists, fs, last_updates, running, thread, listing,
                   mainPc, starts, client, stopSeen>>
    /\ UNCHANGED mainFrame

ThreadStep(t) == LoopTest(t) \/ Sleep(t) \/ ListDir(t) \/ Capture(t) \/ Dispatch(t)

(***************************************************************************)
(* The file system under the root, changed by other processes.             *)
(***************************************************************************)
envFrame == <<last_updates, running, thread, pc, listing, changes, exc,
              mainPc, starts, client, stopSeen, launched>>

CreateFile(n, m) ==
    /\ rootExists /\ n \notin DOMAIN fs
    /\ fs' = DictPut(fs, n, File(m))
    /\ UNCHANGED <<rootExists, envFrame, mainFrame>>

\* A write to the file (a later time), or os.utime (any other time).
SetMtime(n, m) ==
    /\ n \in DOMAIN fs /\ fs[n].mtime # m
    /\ fs' = [fs EXCEPT ![n] = File(m)]
    /\ UNCHANGED <<rootExists, envFrame, mainFrame>>

DeleteFile(n) ==
    /\ n \in DOMAIN fs
    /\ fs' = [x \in DOMAIN fs \ {n} |-> fs[x]]
    /\ UNCHANGED <<rootExists, envFrame, mainFrame>>

RemoveRoot ==
    /\ rootExists
    /\ rootExists' = FALSE
    /\ fs' = EmptyDict
    /\ UNCHANGED <<envFrame, mainFrame>>

(***************************************************************************)
(* Specification Spec: an Observer constructed on an existing flat         *)
(* directory (Observer.__init__ takes the first snapshot), then driven by  *)
(* its client while the directory changes.  SpecMain is the __main__       *)
(* script, which starts the Observer once; SpecMainFair adds that every    *)
(* thread that can take a step eventually takes one.                       *)
(***************************************************************************)
InitObserver ==
    /\ arg = None /\ ret = NotRun
    /\ IdleHandler
    /\ rootExists = TRUE
    /\ fs \in FlatDirs(WatchedNames)
    /\ last_updates = query_last_updates(fs, DOMAIN fs, recursive, <<>>, EmptyDict).updates
    /\ running = FALSE /\ thread = None
    /\ pc = [t \in Threads |-> "unstarted"]
    /\ listing = [t \in Threads |-> {}]
    /\ changes = [t \in Threads |-> EmptyDict]
    /\ exc = [t \in Threads |-> "none"]
    /\ mainPc = "constructed" /\ starts = 0
    /\ stopSeen = "none"
    /\ launched = EmptyDict

Init == InitObserver /\ client \in {"main", "api"}
InitMain == InitObserver /\ client = "main"

Next ==
    \/ Start
    \/ Interrupt
    \/ Join
    \/ \E t \in Threads : LoopTest(t)
    \/ \E t \in Threads : Sleep(t)
    \/ \E t \in Threads : ListDir(t)
    \/ \E t \in Threads : Capture(t)
    \/ \E t \in Threads : Dispatch(t)
    \/ \E n \in WatchedNames, m \in Times : CreateFile(n, m)
    \/ \E n \in WatchedNames, m \in Times : SetMtime(n, m)
    \/ \E n \in WatchedNames : DeleteFile(n)
    \/ RemoveRoot

Spec == Init /\ [][Next]_vars
SpecMain == InitMain /\ [][Next]_vars
SpecMainFair ==
    /\ InitMain /\ [][Next]_vars
    /\ \A t \in Threads : WF_vars(ThreadStep(t))
    /\ WF_vars(Join)

\* SpecEmptyDir: the __main__ script started on an empty directory.
InitEmptyDir == InitMain /\ fs = EmptyDict
SpecEmptyDir == InitEmptyDir /\ [][Next]_vars

\* Thread t completes the capture-and-diff part of a tick in this step.
TickOf(t) == pc[t] = "stat" /\ pc'[t] # "stat"
\* The capture of that tick succeeds: the root and every listed name exist.
CaptureSucceeds(t) == rootExists /\ listing[t] \subseteq DOMAIN fs
Captured(t) == [n \in listing[t] |-> fs[n].mtime]

(***************************************************************************)
(* C3: end to end on an initially empty directory.  The tick after a.txt   *)
(* is created, modified or deleted yields exactly the one CREATE, UPDATE   *)
(* or DELETE record, the dispatch of a record fires every matching handler *)
(* exactly once, and the polling loop is still running after the tick.     *)
(***************************************************************************)
C3_EndToEnd ==
    [][\A t \in Threads :
        /\ (/\ TickOf(t) /\ CaptureSucceeds(t)
            /\ listing[t] \subseteq {A_TXT} /\ DOMAIN last_updates \subseteq {A_TXT})
              => LET expected == ExpectedChanges(last_updates, Captured(t))
                 IN  /\ pc'[t] # "crashed"
                     /\ expected # EmptyDict =>
                            /\ pc'[t] = "dispatch"
                            /\ ChangeNames(changes'[t]) = expected
        /\ (pc[t] = "dispatch" /\ pc'[t] # "dispatch" /\ DOMAIN changes[t] \subseteq {A_TXT})
              => /\ pc'[t] # "crashed"
                 /\ \A x \in ExpectedLaunches(changes[t]) :
                        LaunchCount(launched', x) = LaunchCount(launched, x) + 1
      ]_vars

(***************************************************************************)
(* C5: at the end of every tick whose capture succeeds, last_updates       *)
(* equals the snapshot just captured, whether or not the change set was    *)
(* empty.  (Stated for the ticks that reach their end: a tick that an      *)
(* exception cuts short has none.)                                         *)
(***************************************************************************)
C5_BaselineFollowsCapture ==
    [][\A t \in Threads :
        (TickOf(t) /\ CaptureSucceeds(t) /\ pc'[t] # "crashed")
            => last_updates' = Captured(t)
      ]_vars

(***************************************************************************)
(* C6: at most one polling loop is active in every reachable state.        *)
(***************************************************************************)
C6_OnePollingLoop == Cardinality({t \in Threads : Live(t)}) <= 1

C8_StopLiveness ==
    /\ (mainPc = "stopping") ~> (mainPc = "joined" /\ \A t \in Threads : ~Live(t))
    /\ [][\A t \in Threads :
            (~running /\ pc[t] = "loop") => pc'[t] \in {"loop", "done"}]_vars

\* The flag was cleared while the thread was inside an iteration (after its
\* capture, before its dispatch), the thread left the loop and the join returned.
C8_Witness ==
    /\ mainPc = "joined"
    /\ stopSeen = "dispatch"
    /\ pc[1] = "done"

(***************************************************************************)
(* C10: an I/O failure while capturing a snapshot in the polling loop is   *)
(* not fatal: no polling thread is ended by it.                            *)
(***************************************************************************)
C10_CaptureFailureNotFatal == \A t \in Threads : exc[t] # "OSError"

SUB == <<"s", "u", "b">>
Dir(m, entries) == [isdir |-> TRUE, mtime |-> m, entries |-> entries]
SubDirs == {Dir(m, e) : m \in Times, e \in FlatDirs(WatchedNames)}
Trees ==
    FlatDirs({A_TXT})
        \cup {DictPut(f, SUB, d) : f \in FlatDirs({A_TXT}), d \in SubDirs}

InitTree ==
    /\ arg \in [tree : Trees, recursive : BOOLEAN]
    /\ ret = NotRun
    /\ IdleHandler /\ IdleObserver

\* self.last_updates = self.query_last_updates(path=self.path)
Construct ==
    /\ ret = NotRun
    /\ "tree" \in DOMAIN arg
    /\ LET snap == query_last_updates(arg.tree, DOMAIN arg.tree, arg.recursive,
                                      <<>>, EmptyDict)
       IN  ret' = [exc |-> snap.exc, stage |-> "baseline", baseline |-> snap.updates,
                   created |-> <<>>, dirGrew |-> FALSE, changes |-> EmptyDict]
    /\ UNCHANGED <<arg, handlerVars, observerVars>>

CreateInside(n, m, dm) ==
    /\ ret # NotRun /\ ret.stage = "baseline" /\ ret.exc = "none"
    /\ SUB \in DOMAIN arg.tree
    /\ LET sub == arg.tree[SUB]
       IN  /\ n \notin DOMAIN sub.entries
           /\ dm >= sub.mtime
           /\ arg' = [arg EXCEPT !.tree =
                         DictPut(arg.tree, SUB, Dir(dm, DictPut(sub.entries, n, File(m))))]
           /\ ret' = [ret EXCEPT !.stage = "created", !.created = n,
                                 !.dirGrew = (dm > sub.mtime)]
    /\ UNCHANGED <<handlerVars, observerVars>>

\* new_updates = self.query_last_updates(self.path); changes = self.get_changes(...)
TreeTick ==
    /\ ret # NotRun /\ ret.stage = "created"
    /\ LET snap == query_last_updates(arg.tree, DOMAIN arg.tree, arg.recursive,
                                      <<>>, EmptyDict)
           diff == get_changes(ret.baseline, snap.updates)
       IN  ret' = [ret EXCEPT !.stage = "ticked",
                              !.exc = IF snap.exc # "none" THEN snap.exc ELSE diff.exc,
                              !.changes = diff.changes]
    /\ UNCHANGED <<arg, handlerVars, observerVars>>

NextTree ==
    \/ Construct
    \/ \E n \in WatchedNames, m \in Times, dm \in Times : CreateInside(n, m, dm)
    \/ TreeTick

SpecTree == InitTree /\ [][NextTree]_vars

(***************************************************************************)
(* C11: a file created inside an existing subdirectory yields a change     *)
(* record on the next tick when recursive is set, and no change record at  *)
(* all, for the file or for anything else, when it is not.                 *)
(***************************************************************************)
C11_RecursiveOnly ==
    (ret # NotRun /\ ret.stage = "ticked") =>
        /\ ret.exc = "none"
        /\ arg.recursive => (SUB \o <<"/">> \o ret.created) \in DOMAIN ret.changes
        /\ ~arg.recursive => ret.changes = EmptyDict

\* The files under a directory, each by its "/"-joined path relative to it.
RECURSIVE FilePaths(_, _)
FilePaths(dir, prefix) ==
    UNION {IF dir[n].isdir
           THEN FilePaths(dir[n].entries, prefix \o n \o <<"/">>)
           ELSE {prefix \o n} : n \in DOMAIN dir}

(***************************************************************************)
(* C17: the keys of a snapshot are exactly the entries observed under the  *)
(* root, each by its "/"-joined relative path; with recursive set these    *)
(* are the files of the tree, and a directory that is walked is not itself *)
(* a key.  (Without recursive, the direct children of the root.)           *)
(***************************************************************************)
C17_SnapshotKeys ==
    (ret # NotRun /\ ret.stage = "baseline") =>
        /\ ret.exc = "none"
        /\ DOMAIN ret.baseline =
               IF arg.recursive THEN FilePaths(arg.tree, <<>>) ELSE DOMAIN arg.tree

(***************************************************************************)
(* Specification SpecConfig: read_handlers applied to every list of up to  *)
(* MaxRules handler entries, lists with a repeated pattern included.       *)
(***************************************************************************)
MaxRules == 2

RuleChoices ==
    {Rule(p, <<a>>, sc) : p \in {RE_PDF_END, RE_DRAFT}, a \in {"CREATE", "UPDATE"},
                          sc \in {"scriptA", "scriptB"}}
Configurations == UNION {[1..n -> RuleChoices] : n \in 0..MaxRules}

InitConfig ==
    /\ arg \in [configuration : Configurations]
    /\ ret = NotRun
    /\ IdleHandler /\ IdleObserver

ApplyRead ==
    /\ ret = NotRun
    /\ "configuration" \in DOMAIN arg
    /\ ret' = [exc |-> "none", handlers |-> read_handlers(arg.configuration)]
    /\ UNCHANGED <<arg, handlerVars, observerVars>>

NextConfig == ApplyRead

SpecConfig == InitConfig /\ [][NextConfig]_vars

\* The rules a handlers dict holds, in the order process_changes visits them.
RulesOf(handlers) ==
    [i \in 1..Len(handlers) |->
        Rule(handlers[i].key,
             [k \in 1..Len(handlers[i].value.actions) |-> handlers[i].value.actions[k].value],
             handlers[i].value.script)]

(***************************************************************************)
(* C13: for every configured list of rules, two rules with the same        *)
(* pattern included, the handlers that dispatch visits are the configured  *)
(* rules in registration order: none is lost or replaced by another.       *)
(***************************************************************************)
C13_NoRuleLost ==
    ret # NotRun => RulesOf(ret.handlers) = arg.configuration

(***************************************************************************)
(* Specification SpecTicks: the ticks of one polling loop, one after the   *)
(* other.  The Observer is constructed on a directory (__init__ takes the  *)
(* baseline), start() is called, and each tick captures the snapshot the   *)
(* directory has by then (any snapshot: other processes change the files   *)
(* at any moment, before start() too), compares it with the baseline,      *)
(* replaces the baseline if the change set is not empty and dispatches.    *)
(* An exception ends the loop.                                             *)
(***************************************************************************)
MaxTicks == 3

Session(initial) ==
    [exc |-> "none", stage |-> "constructed", ticks |-> 0, baseline |-> initial,
     previous |-> None, captured |-> None, changes |-> EmptyDict, fired |-> {}]

InitTicks ==
    /\ arg \in [initial : Snapshots(WatchedNames)]
    /\ ret = Session(arg.initial)
    /\ IdleHandler /\ IdleObserver

StartTicks ==
    /\ ret.stage = "constructed"
    /\ ret' = [ret EXCEPT !.stage = "polling"]
    /\ UNCHANGED <<arg, handlerVars, observerVars>>

NextBaselineKept(old_updates, new_updates, chg) == old_updates

\* if changes: self.last_updates = new_updates
NextBaseline(old_updates, new_updates, chg) ==
    IF chg # EmptyDict THEN new_updates ELSE old_updates

Tick(new_updates) ==
    /\ ret.stage = "polling" /\ ret.exc = "none" /\ ret.ticks < MaxTicks
    /\ LET diff == get_changes(ret.baseline, new_updates)
           r == IF diff.exc = "none" /\ diff.changes # EmptyDict
                THEN process_changes(diff.changes, Handlers)
                ELSE [exc |-> diff.exc, launched |-> {}]
       IN  ret' = [exc |-> r.exc, stage |-> "polling", ticks |-> ret.ticks + 1,
                   baseline |-> IF diff.exc = "none"
                                THEN NextBaseline(ret.baseline, new_updates, diff.changes)
                                ELSE ret.baseline,
                   previous |-> ret.captured, captured |-> new_updates,
                   changes |-> diff.changes, fired |-> r.launched]
    /\ UNCHANGED <<arg, handlerVars, observerVars>>

\* The capture itself raises (the root is gone, or a listed file vanished).
TickCaptureFails ==
    /\ ret.stage = "polling" /\ ret.exc = "none" /\ ret.ticks < MaxTicks
    /\ ret' = [ret EXCEPT !.exc = "OSError", !.ticks = ret.ticks + 1,
                          !.previous = ret.captured, !.captured = None,
                          !.changes = EmptyDict, !.fired = {}]
    /\ UNCHANGED <<arg, handlerVars, observerVars>>

NextTicks ==
    \/ StartTicks
    \/ \E new_updates \in Snapshots(WatchedNames) : Tick(new_updates)
    \/ TickCaptureFails

SpecTicks == InitTicks /\ [][NextTicks]_vars

(***************************************************************************)
(* C18: quiescence.  When two consecutive ticks both succeed and capture   *)
(* the same snapshot, the second one has an empty change set and invokes   *)
(* no handler, whatever the ticks before reported.                         *)
(***************************************************************************)
C18_Quiescence ==
    (ret.ticks >= 2 /\ ret.exc = "none" /\ ret.captured = ret.previous)
        => ret.changes = EmptyDict /\ ret.fired = {}

\* Three ticks: the first two captured different snapshots, the third the
\* same as the second, starting from a baseline that differs from it.
C18_Witness ==
    /\ ret.ticks = 3 /\ ret.exc = "none"
    /\ ret.captured = ret.previous
    /\ ret.captured # arg.initial
    /\ ret.baseline = ret.captured

(***************************************************************************)
(* C19: no startup replay.  On the first tick whose capture succeeds, a    *)
(* file that was there at construction with the same modification time     *)
(* has no change record and no handler invocation, and a file that was     *)
(* not there at construction has the record CREATE.                        *)
(***************************************************************************)
C19_NoStartupReplay ==
    (ret.ticks = 1 /\ ret.captured # None) =>
        \A p \in DOMAIN ret.captured :
            /\ (p \in DOMAIN arg.initial /\ arg.initial[p] = ret.captured[p])
                  => /\ p \notin DOMAIN ret.changes
                     /\ \A x \in ret.fired : x[2] # p
            /\ p \notin DOMAIN arg.initial
                  => /\ ret.exc = "none"
                     /\ p \in DOMAIN ret.changes
                     /\ ret.changes[p] = Str("CREATE")

====
